---------------------------- MODULE Spec2Model ----------------------------
(***************************************************************************)
(* Model of the two numerical engines of the multiview library:            *)
(*   - KMeans (multiview/cluster/k_means.py), the co-EM two-view k-means;  *)
(*   - KCCA   (mvlearn/embed/kcca.py), kernel canonical correlation.       *)
(*                                                                         *)
(* A view is a matrix with one feature column, written as the sequence of  *)
(* its rows (integers).  Scalars computed from views (means, distances,    *)
(* objectives) are exact rationals, or one of the IEEE values NaN / +inf   *)
(* that numpy produces for an empty mean and for np.inf.  With one column  *)
(* the Euclidean norm of a row difference is its absolute value.           *)
(***************************************************************************)
EXTENDS Integers, Sequences, FiniteSets, TLC

(***************************************************************************)
(* Bounds of the model.                                                    *)
(***************************************************************************)
MaxSamples == 2

MaxPatience == 2

MaxMaxIter == 2

(***************************************************************************)
(* Scalars: rationals in lowest terms, NaN and +inf.                       *)
(***************************************************************************)
RECURSIVE GCD(_, _)
GCD(a, b) == IF b = 0 THEN a ELSE GCD(b, a % b)

AbsInt(x) == IF x < 0 THEN -x ELSE x

NaN == [k |-> "nan", n |-> 0, d |-> 1]

Inf == [k |-> "inf", n |-> 0, d |-> 1]

Num(n, d) ==
    LET g == GCD(AbsInt(n), d)
    IN  [k |-> "num", n |-> n \div g, d |-> d \div g]

IsNaN(a) == a.k = "nan"

\* a < b on floats: false as soon as one side is NaN
Less(a, b) ==
    /\ a.k # "nan"
    /\ b.k # "nan"
    /\ a.k = "num"
    /\ \/ b.k = "inf"
       \/ a.n * b.d < b.n * a.d

\* a + b on floats
Add(a, b) ==
    IF a.k = "nan" \/ b.k = "nan" THEN NaN
    ELSE IF a.k = "inf" \/ b.k = "inf" THEN Inf
    ELSE Num(a.n * b.d + b.n * a.d, a.d * b.d)

\* a - b on floats, for finite a and b
Sub(a, b) ==
    IF a.k = "nan" \/ b.k = "nan" THEN NaN
    ELSE Num(a.n * b.d - b.n * a.d, a.d * b.d)

\* a * b on floats, for finite a and b
Mul(a, b) ==
    IF a.k = "nan" \/ b.k = "nan" THEN NaN
    ELSE Num(a.n * b.n, a.d * b.d)

\* np.linalg.norm(x - c) for a one-column row x and a centroid row c
RowDist(x, c) ==
    IF c.k = "nan" THEN NaN
    ELSE IF c.k = "inf" THEN Inf
    ELSE Num(AbsInt(x * c.d - c.n), c.d)

RECURSIVE SumInts(_)
SumInts(s) == IF s = <<>> THEN 0 ELSE Head(s) + SumInts(Tail(s))

RECURSIVE SumScalars(_)
SumScalars(s) == IF s = <<>> THEN Num(0, 1) ELSE Add(Head(s), SumScalars(Tail(s)))

\* np.mean(rows, axis=0) of the selected rows: NaN for an empty selection
Mean(rows) == IF rows = <<>> THEN NaN ELSE Num(SumInts(rows), Len(rows))

\* X[mask] for a boolean mask of the length of X
RECURSIVE Masked(_, _)
Masked(X, mask) ==
    IF X = <<>> THEN <<>>
    ELSE IF Head(mask) THEN <<Head(X)>> \o Masked(Tail(X), Tail(mask))
    ELSE Masked(Tail(X), Tail(mask))

\* np.argmin over a column of scalars, as a 0-based index: the first NaN if
\* there is one, else the first minimum
RECURSIVE ArgMinFrom(_, _, _)
ArgMinFrom(col, best, i) ==
    IF i > Len(col) THEN best - 1
    ELSE IF IsNaN(col[best]) THEN best - 1
    ELSE IF IsNaN(col[i]) THEN i - 1
    ELSE IF Less(col[i], col[best]) THEN ArgMinFrom(col, i, i + 1)
    ELSE ArgMinFrom(col, best, i + 1)

\* the position of the minimum counted from 1
ArgMinOneBased(col) == ArgMinFrom(col, 1, 2) + 1

ArgMin(col) == ArgMinFrom(col, 1, 2)


(***************************************************************************)
(* Inputs.  A call receives a list of views: well-formed lists (two views  *)
(* of equal sample count; the first view is fixed per sample count, the    *)
(* second view, from which fit draws its initial centroids, is arbitrary)  *)
(* and malformed lists (one view, three views, two views of unequal        *)
(* sample counts).                                                         *)
(***************************************************************************)
\* the values a row of a view takes
Samples == {0, 1}

Views == UNION {[1 .. n -> Samples] : n \in 1 .. MaxSamples}

\* one view per sample count: rows 0, 1, 0, 1, ...
CanonViews == {v \in Views : \A i \in 1 .. Len(v) : v[i] = (i - 1) % 2}

MalformedLists(V) ==
    {p \in V \X V : Len(p[1]) # Len(p[2])}
        \cup {<<a>> : a \in V}
        \cup {<<a, a, a>> : a \in V}

ViewLists ==
    {p \in CanonViews \X Views : Len(p[1]) = Len(p[2])}
        \cup MalformedLists(CanonViews)

\* what the validation the spec describes would accept
WellFormed(Xs) == Len(Xs) = 2 /\ Len(Xs[1]) = Len(Xs[2])

None == [def |-> FALSE, rows |-> <<>>]

Some(rows) == [def |-> TRUE, rows |-> rows]

NoInt == [none |-> TRUE, n |-> 0]

IntArg(n) == [none |-> FALSE, n |-> n]

(***************************************************************************)
(* State.                                                                  *)
(***************************************************************************)
VARIABLES
    engine,         \* which estimator this run constructs and uses
    km,             \* KMeans: _k, _random_state, _max_iter
    centroids,      \* KMeans: self._centroids
    pc,             \* KMeans: "idle", or "fit" while inside the loop of fit
    caller,         \* KMeans: the method that called fit, and its patience
    Xs,             \* KMeans.fit: the views being fitted
    patience,       \* KMeans.fit: the patience parameter of the running fit
    indices,        \* KMeans.fit: the sampled row indices
    partitions,     \* KMeans.fit: the local list partitions
    new_partitions, \* KMeans.fit: the local new_partitions
    objective,      \* KMeans.fit: the local list objective
    iter_stall,     \* KMeans.fit: the local iter_stall
    iter_num,       \* KMeans.fit: the local iter_num
    view,           \* KMeans.fit: the local view of the last iteration
    result,         \* outcome of the last finished call
    lastFit,        \* history: the last fit of this instance that returned
    fit_ok,         \* history: some fit of this instance has returned
    fit_cur,        \* history: the last fit started on this instance returned
    kc,             \* KCCA: the constructor's parameters, once constructed
    train,          \* KCCA: self.X and self.Y
    weights_,       \* KCCA: self.weights_
    components_,    \* KCCA: self.components_
    solver,         \* the function linalg.eig computes for a non-zero problem
    gp              \* GroupPCA: the parameters and the fitted attributes

kmvars == <<km, centroids, pc, caller, Xs, patience, indices, partitions,
            new_partitions, objective, iter_stall, iter_num, view, lastFit,
            fit_ok, fit_cur>>

kcvars == <<kc, train, weights_, components_>>

vars == <<engine, solver, gp, kmvars, result, kcvars>>

(***************************************************************************)
(* KMeans.__init__                                                         *)
(***************************************************************************)
\* self._max_iter: the argument, or np.inf when the argument is falsy
MaxIterOf(max_iter) ==
    IF max_iter.none \/ max_iter.n = 0
    THEN [inf |-> TRUE, n |-> 0]
    ELSE [inf |-> FALSE, n |-> max_iter.n]

KMeansInit(k, random_state, max_iter) ==
    [k |-> k, random_state |-> random_state, max_iter |-> MaxIterOf(max_iter)]

UnsetCentroids == [set |-> FALSE, c |-> <<None, None>>]

\* the outcome of a call: the method, what it raised ("ok" when it
\* returned), the labels and the number of rows it returned, and whether its
\* argument was well formed
Outcome(op, kind, labels, n, wf) ==
    [op |-> op, kind |-> kind, labels |-> labels, n |-> n, wf |-> wf]

Raised(op, kind, wf) == Outcome(op, kind, <<>>, 0, wf)

Returned(op, wf) == Outcome(op, "ok", <<>>, 0, wf)

NoCall == Outcome("none", "none", <<>>, 0, TRUE)

NoFit == [done |-> FALSE, Xs |-> <<>>, patience |-> 0, indices |-> <<>>,
          centroids |-> UnsetCentroids, partitions |-> <<None, None>>]

\* result while a call is running
Running(wf) == Outcome("running", "none", <<>>, 0, wf)

NoCaller == [op |-> "none", patience |-> 0]

\* the locals of fit outside a running fit
FitLocalsCleared ==
    /\ Xs' = <<>>
    /\ patience' = 0
    /\ indices' = <<>>
    /\ partitions' = <<None, None>>
    /\ new_partitions' = None
    /\ objective' = <<Inf, Inf>>
    /\ iter_stall' = 0
    /\ iter_num' = 0
    /\ view' = 0
    /\ caller' = NoCaller

(***************************************************************************)
(* KMeans._compute_distance and the nearest-centroid assignment            *)
(***************************************************************************)
\* distances[cl][i]: distance of row i of X to centers[cl], cl in range(k)
ComputeDistance(X, centers, k) ==
    [cl \in 1 .. k |-> [i \in 1 .. Len(X) |-> RowDist(X[i], centers[cl])]]

\* np.argmin(distances, axis=0).flatten()
ArgMinAxis0(distances, n) ==
    [i \in 1 .. n |-> ArgMin([cl \in 1 .. Len(distances) |-> distances[cl][i]])]

\* elementwise a + b of two (k, n) matrices
AddMatrix(a, b) ==
    [cl \in 1 .. Len(a) |-> [i \in 1 .. Len(a[cl]) |-> Add(a[cl][i], b[cl][i])]]

\* (part == cl) for an array part
EqMask(part, cl) == [i \in 1 .. Len(part) |-> part[i] = cl]

(***************************************************************************)
(* KMeans.fit, lines 114-124: initialization                               *)
(***************************************************************************)
\* np.random.choice(n, k): k draws with replacement from range(n).  The
\* generator is numpy's global one; self._random_state is never given to it.
IndexChoices(n, k, random_state) == [1 .. k -> 0 .. (n - 1)]

\* Xs[1][indices]
InitialCenters(X, ind) == [c \in 1 .. Len(ind) |-> Num(X[ind[c] + 1], 1)]

InitialPartition(X, centers, k) ==
    ArgMinAxis0(ComputeDistance(X, centers, k), Len(X))

\* the part of fit before the loop, entered from fit or from fit_predict
FitEnter(views, p, from) ==
    IF Len(views) < 2
    THEN \* Xs[1] raises before anything is stored
         /\ result' = Raised(from.op, "IndexError", WellFormed(views))
         /\ UNCHANGED kmvars
    ELSE \E ind \in IndexChoices(Len(views[2]), km.k, km.random_state) :
            LET centers == InitialCenters(views[2], ind)
                parts == InitialPartition(views[2], centers, km.k)
            IN  /\ centroids' = [set |-> TRUE, c |-> <<None, Some(centers)>>]
                /\ Xs' = views
                /\ patience' = p
                /\ indices' = ind
                /\ partitions' = <<None, Some(parts)>>
                /\ new_partitions' = None
                /\ objective' = <<Inf, Inf>>
                /\ iter_stall' = 0
                /\ iter_num' = 0
                /\ view' = 0
                /\ caller' = from
                /\ pc' = "fit"
                /\ result' = Running(WellFormed(views))
                /\ fit_cur' = FALSE
                /\ UNCHANGED <<km, lastFit, fit_ok>>

\* fit(Xs, patience)
KMeansFit(views, p) ==
    /\ engine = "kmeans"
    /\ pc = "idle"
    /\ FitEnter(views, p, [op |-> "fit", patience |-> p])
    /\ UNCHANGED <<engine, solver, gp, kcvars>>

(***************************************************************************)
(* KMeans.fit, lines 126-154: one iteration of the loop                    *)
(***************************************************************************)
\* the loop guard with the stall test off by one
LoopConditionStallLeq ==
    /\ iter_stall <= patience
    /\ (km.max_iter.inf \/ iter_num < km.max_iter.n)

LoopCondition ==
    /\ iter_stall < patience
    /\ (km.max_iter.inf \/ iter_num < km.max_iter.n)

\* the view of iteration it when the first iteration takes view 1
ViewOfFromOne(it) == it % 2

\* view = (iter_num + 1) % 2
ViewOf(it) == (it + 1) % 2

\* the boolean index of line 134 fits the rows of X
MaskFits(X, part) == part.def => Len(part.rows) = Len(X)

\* the M-step with the mask taken for cluster cl + 1 in place of cl
MStepShifted(X, part, k) ==
    IF part.def
    THEN [cl \in 1 .. k |-> Mean(Masked(X, EqMask(part.rows, cl)))]
    ELSE [r \in 1 .. (k * Len(X)) |-> NaN]

\* lines 132-137.  For an array partition: the k means of the rows selected
\* by (part == cl).  For partition None the comparison None == cl is the
\* scalar False, X[False] is an empty stack of copies of X, its mean is a
\* NaN block of the shape of X, and vstack piles up k such blocks.
MStep(X, part, k) ==
    IF part.def
    THEN [cl \in 1 .. k |-> Mean(Masked(X, EqMask(part.rows, cl - 1)))]
    ELSE [r \in 1 .. (k * Len(X)) |-> NaN]

\* lines 139-140
EStep(X, centers, k) == ArgMinAxis0(ComputeDistance(X, centers, k), Len(X))

\* np.sum(np.linalg.norm(vecs - centers[clust], axis=1)) for one cluster
ClusterCost(X, part, centers, clust) ==
    IF part.def
    THEN LET vecs == Masked(X, EqMask(part.rows, clust - 1))
         IN  SumScalars([i \in 1 .. Len(vecs) |-> RowDist(vecs[i], centers[clust])])
    ELSE Num(0, 1)

\* lines 143-147
RECURSIVE ObjectiveUpTo(_, _, _, _)
ObjectiveUpTo(X, part, centers, clust) ==
    IF clust = 0 THEN Num(0, 1)
    ELSE Add(ObjectiveUpTo(X, part, centers, clust - 1),
             ClusterCost(X, part, centers, clust))

ObjectiveFunction(X, part, centers, k) == ObjectiveUpTo(X, part, centers, k)

\* the comparison of line 150 written with <= for <
ImprovesOrEqual(o_funct, best) == Less(o_funct, best) \/ o_funct = best

\* line 150
Improves(o_funct, best) == Less(o_funct, best)

KMeansFitIter ==
    /\ engine = "kmeans"
    /\ pc = "fit"
    /\ LoopCondition
    /\ LET it == iter_num + 1
           v == ViewOf(it)
           other == (v + 1) % 2
       IN  IF ~MaskFits(Xs[v + 1], partitions[other + 1])
           THEN \* line 135 raises; the exception leaves fit
                /\ result' = Raised(caller.op, "IndexError", WellFormed(Xs))
                /\ pc' = "idle"
                /\ FitLocalsCleared
                /\ UNCHANGED <<engine, solver, gp, km, centroids, lastFit, fit_ok,
                               fit_cur, kcvars>>
           ELSE \E centers \in {MStep(Xs[v + 1], partitions[other + 1], km.k)} :
                \E o_funct \in {ObjectiveFunction(Xs[v + 1], partitions[v + 1],
                                                  centers, km.k)} :
                    /\ iter_num' = it
                    /\ view' = v
                    /\ centroids' = [centroids EXCEPT !.c[v + 1] = Some(centers)]
                    /\ new_partitions' = Some(EStep(Xs[v + 1], centers, km.k))
                    /\ IF Improves(o_funct, objective[v + 1])
                       THEN /\ objective' = [objective EXCEPT ![v + 1] = o_funct]
                            /\ iter_stall' = 0
                       ELSE /\ objective' = objective
                            /\ iter_stall' = iter_stall + 1
                    /\ UNCHANGED <<engine, solver, gp, km, pc, caller, Xs, patience,
                                   indices, partitions, result, lastFit, fit_ok,
                                   fit_cur, kcvars>>

(***************************************************************************)
(* KMeans.predict, lines 180-205                                           *)
(***************************************************************************)
\* the consensus centroid taken over the samples either partition assigns
\* to the cluster
ConsensusEither(X, part1, part2, k) ==
    [cl \in 1 .. k |->
        LET part_indices == [i \in 1 .. Len(X) |->
                                part1[i] = cl - 1 \/ part2[i] = cl - 1]
        IN  Mean(Masked(X, part_indices))]

\* lines 183-196: the per-cluster consensus centroid of view X
Consensus(X, part1, part2, k) ==
    [cl \in 1 .. k |->
        LET part_indices == [i \in 1 .. Len(X) |->
                                part1[i] = cl - 1 /\ part2[i] = cl - 1]
        IN  Mean(Masked(X, part_indices))]

\* lines 180-203 for two views of equal sample count and fitted centroids
Predictions(cents, views, k) ==
    LET n == Len(views[1])
        v1_partitions == ArgMinAxis0(ComputeDistance(views[1], cents.c[1].rows, k), n)
        v2_partitions == ArgMinAxis0(ComputeDistance(views[2], cents.c[2].rows, k), n)
        v1_consensus == Consensus(views[1], v1_partitions, v2_partitions, k)
        v2_consensus == Consensus(views[2], v1_partitions, v2_partitions, k)
        dist1 == ComputeDistance(views[1], v1_consensus, k)
        dist2 == ComputeDistance(views[2], v2_consensus, k)
    IN  ArgMinAxis0(AddMatrix(dist1, dist2), n)

\* what a call of predict does: the exception it raises, or the labels
PredictOutcome(cents, views, k) ==
    LET raise(e) == [kind |-> e, labels |-> <<>>, n |-> 0]
    IN  IF ~cents.set
        THEN raise("TypeError")     \* self._centroids[0] with _centroids None
        ELSE IF ~cents.c[1].def
        THEN raise("TypeError")     \* centers[cl] with centers None
        ELSE IF Len(views) < 2
        THEN raise("IndexError")    \* Xs[1]
        ELSE IF Len(views[1]) # Len(views[2])
        THEN IF Len(views[1]) = 1 \/ Len(views[2]) = 1
             THEN raise("IndexError")   \* the broadcast mask does not fit a view
             ELSE raise("ValueError")   \* the two masks do not broadcast
        ELSE [kind |-> "ok", labels |-> Predictions(cents, views, k),
              n |-> Len(views[1])]

CallResult(op, outcome, wf) ==
    Outcome(op, outcome.kind, outcome.labels, outcome.n, wf)

\* predict(Xs) that keeps the consensus centroids as the fitted centroids
KMeansPredictStoring(views) ==
    /\ engine = "kmeans"
    /\ pc = "idle"
    /\ LET out == PredictOutcome(centroids, views, km.k)
       IN  /\ result' = CallResult("predict", out, WellFormed(views))
           /\ centroids' =
                  IF out.kind = "ok"
                  THEN LET n == Len(views[1])
                           p1 == ArgMinAxis0(ComputeDistance(views[1],
                                     centroids.c[1].rows, km.k), n)
                           p2 == ArgMinAxis0(ComputeDistance(views[2],
                                     centroids.c[2].rows, km.k), n)
                       IN  [set |-> TRUE,
                            c |-> <<Some(Consensus(views[1], p1, p2, km.k)),
                                    Some(Consensus(views[2], p1, p2, km.k))>>]
                  ELSE centroids
    /\ UNCHANGED <<engine, solver, gp, km, pc, caller, Xs, patience, indices, partitions,
                   new_partitions, objective, iter_stall, iter_num, view,
                   lastFit, fit_ok, fit_cur, kcvars>>

\* predict(Xs)
KMeansPredict(views) ==
    /\ engine = "kmeans"
    /\ pc = "idle"
    /\ result' = CallResult("predict", PredictOutcome(centroids, views, km.k),
                            WellFormed(views))
    /\ UNCHANGED <<engine, solver, gp, kmvars, kcvars>>

(***************************************************************************)
(* KMeans.fit, line 156, and KMeans.fit_predict, lines 230-232             *)
(***************************************************************************)
DefaultPatience == 5

\* the patience fit_predict hands to fit: self.fit(Xs) passes none
FitPredictPatience(p) == DefaultPatience

\* fit_predict(Xs, patience), up to the loop of fit
KMeansFitPredict(views, p) ==
    /\ engine = "kmeans"
    /\ pc = "idle"
    /\ FitEnter(views, FitPredictPatience(p), [op |-> "fit_predict", patience |-> p])
    /\ UNCHANGED <<engine, solver, gp, kcvars>>

\* the loop of fit ends: fit returns, and fit_predict goes on to predict.
\* keep tells whether the history variable lastFit records this fit.
KMeansFitReturn(keep) ==
    /\ engine = "kmeans"
    /\ pc = "fit"
    /\ ~LoopCondition
    /\ lastFit' = IF keep
                  THEN [done |-> TRUE, Xs |-> Xs, patience |-> patience,
                        indices |-> indices, centroids |-> centroids,
                        partitions |-> partitions]
                  ELSE lastFit
    /\ result' = IF caller.op = "fit_predict"
                 THEN CallResult("fit_predict", PredictOutcome(centroids, Xs, km.k),
                                 WellFormed(Xs))
                 ELSE Returned("fit", WellFormed(Xs))
    /\ fit_ok' = TRUE
    /\ fit_cur' = TRUE
    /\ pc' = "idle"
    /\ FitLocalsCleared
    /\ UNCHANGED <<engine, solver, gp, km, centroids, kcvars>>

(***************************************************************************)
(* KCCA.__init__, lines 176-200.  An argument is a Python value: its type  *)
(* and, for a number, its value.                                           *)
(***************************************************************************)
PyInt(v) == [t |-> "int", v |-> v]

PyFloat(v) == [t |-> "float", v |-> v]

PyStr == [t |-> "str", v |-> 0]

\* x < c where c is an int: a str on the left raises TypeError
Comparable(x) == x.t # "str"

IsNumber(x) == x.t = "float" \/ x.t = "int"

\* the checks of lines 186-200 in their order: "ok", or the exception raised
ConfigCheck(c) ==
    IF ~Comparable(c.n_components) THEN "TypeError"
    ELSE IF c.n_components.v < 0 \/ c.n_components.t # "int" THEN "ValueError"
    ELSE IF c.ktype # "linear" /\ c.ktype # "poly" /\ c.ktype # "gaussian"
    THEN "ValueError"
    ELSE IF ~Comparable(c.sigma) THEN "TypeError"
    ELSE IF c.sigma.v < 0 \/ ~IsNumber(c.sigma) THEN "ValueError"
    ELSE IF ~(c.degree.t = "float" \/ c.sigma.t = "int") THEN "ValueError"
    ELSE IF ~Comparable(c.reg) THEN "TypeError"
    ELSE IF c.reg.v < 0 \/ c.reg.v > 1 \/ c.reg.t # "float" THEN "ValueError"
    ELSE IF ~Comparable(c.constant) THEN "TypeError"
    ELSE IF c.constant.v < 0 \/ ~IsNumber(c.constant) THEN "ValueError"
    ELSE "ok"

NCompArgs == {PyInt(-1), PyInt(0), PyInt(2), PyFloat(1), PyStr}

KTypeArgs == {"linear", "poly", "gaussian", "rbf"}

SigmaArgs == {PyInt(1), PyFloat(-1), PyFloat(0), PyFloat(1), PyStr}

DegreeArgs == {PyInt(2), PyFloat(2), PyFloat(-1), PyStr}

RegArgs == {PyInt(0), PyInt(1), PyFloat(-1), PyFloat(1), PyFloat(2), PyStr}

ConstantArgs == {PyInt(0), PyFloat(-1), PyStr}

DecompArgs == {"full", "incomplete"}

MethodArgs == {"kettenring-like", "other"}

Configs ==
    [n_components : NCompArgs, ktype : KTypeArgs, constant : ConstantArgs,
     sigma : SigmaArgs, degree : DegreeArgs, reg : RegArgs,
     decomp : DecompArgs, method : MethodArgs]

DefaultConfig ==
    [n_components |-> PyInt(2), ktype |-> "linear", constant |-> PyInt(0),
     sigma |-> PyFloat(1), degree |-> PyFloat(2), reg |-> PyFloat(1),
     decomp |-> "full", method |-> "kettenring-like"]

NotConstructed == [made |-> FALSE, cfg |-> DefaultConfig]

NoTrain == [def |-> FALSE, X |-> <<>>, Y |-> <<>>]

NoWeights == [def |-> FALSE, X |-> <<>>, Y |-> <<>>, cols |-> 0, w |-> <<>>]

NoComponents == [def |-> FALSE, shape |-> <<>>, comp |-> <<>>]

\* the configurations section 4.2 of the specification declares valid
ValidConfig(c) ==
    /\ c.n_components.t = "int" /\ c.n_components.v > 0
    /\ c.ktype \in {"linear", "gaussian", "poly"}
    /\ IsNumber(c.sigma) /\ c.sigma.v > 0
    /\ IsNumber(c.degree) /\ c.degree.v >= 0
    /\ IsNumber(c.constant) /\ c.constant.v >= 0
    /\ IsNumber(c.reg) /\ c.reg.v >= 0 /\ c.reg.v <= 1

\* KCCA(**c)
KCCAInit(c) ==
    /\ engine = "kcca"
    /\ ~kc.made
    /\ result.op = "none"
    /\ LET e == ConfigCheck(c)
       IN  /\ kc' = IF e = "ok" THEN [made |-> TRUE, cfg |-> c] ELSE kc
           /\ result' = Raised("KCCA", e, ValidConfig(c))
    /\ UNCHANGED <<engine, solver, gp, kmvars, train, weights_, components_>>

(***************************************************************************)
(* KCCA.fit and KCCA.transform                                             *)
(***************************************************************************)
\* check_Xs(Xs, multiview=True): the input validation collaborator
CheckXs(views) == WellFormed(views)

\* the array of floats check_Xs returns for a view
AsArray(rows) == [i \in 1 .. Len(rows) |-> Num(rows[i], 1)]

\* x.mean(0) of a non-empty column of floats
ColumnMean(x) ==
    LET t == SumScalars(x)
    IN  IF t.k = "num" THEN Num(t.n, t.d * Len(x)) ELSE t

\* _center_norm, lines 317-319: x - x.mean(0)
CenterNorm(x) == [i \in 1 .. Len(x) |-> Sub(x[i], ColumnMean(x))]

(***************************************************************************)
(* _make_kernel, lines 322-340.  A kernel matrix is not evaluated entry by *)
(* entry (the gaussian kernel is not rational): it is named by the         *)
(* arguments its value depends on, with the two facts the solver needs:    *)
(* whether every entry is finite, and whether the centred matrix is zero.  *)
(***************************************************************************)
\* the arguments the branch taken for ktype reads
KernelParams(ktype, constant, degree, sigma) ==
    IF ktype = "linear" THEN <<>>
    ELSE IF ktype = "poly" THEN <<constant, degree>>
    ELSE <<sigma>>

\* line 334: (X @ Y.T + constant) ** degree raises TypeError for a str degree
PowerDefined(ktype, degree) == ktype = "poly" => IsNumber(degree)

\* whether every entry of the uncentred kernel is finite.  poly: a zero base
\* under a negative exponent is inf.  gaussian: sigma = 0 divides a zero
\* distance by zero, which is NaN.
KernelFinite(X, Y, ktype, constant, degree, sigma) ==
    IF ktype = "linear" THEN TRUE
    ELSE IF ktype = "poly"
    THEN degree.v < 0 =>
             \A i \in 1 .. Len(X), j \in 1 .. Len(Y) :
                 Add(Mul(X[i], Y[j]), Num(constant.v, 1)) # Num(0, 1)
    ELSE sigma.v # 0 \/ \A i \in 1 .. Len(X), j \in 1 .. Len(Y) : X[i] # Y[j]

\* lines 325-326: np.eye(1) - 1/1 * np.ones(1) is the 1x1 zero matrix, so a
\* finite kernel with one row or one column is centred to zero
KernelZero(X, Y, finite) == finite /\ (Len(X) = 1 \/ Len(Y) = 1)

MakeKernel(X, Y, ktype, constant, degree, sigma) ==
    LET finite == KernelFinite(X, Y, ktype, constant, degree, sigma)
    IN  [left |-> X, right |-> Y, ktype |-> ktype,
         params |-> KernelParams(ktype, constant, degree, sigma),
         finite |-> finite, zero |-> KernelZero(X, Y, finite)]

(***************************************************************************)
(* linalg.eig(R, D), line 242.  The eigenpairs are not computed.  When     *)
(* both kernels are zero, R is the zero matrix and D is reg * I: the       *)
(* eigenvalues are all 0 and the eigenvectors are the columns of the       *)
(* identity.  Otherwise the result depends on the solver, a function that  *)
(* is fixed for a run and is one of a family: it returns the eigenvalues   *)
(* in ascending or in descending order, and eigenvectors that are the      *)
(* identity columns, real vectors with both halves non-zero, or complex    *)
(* vectors.  An entry of an eigenvector is a complex integer.              *)
(***************************************************************************)
Cx(re, im) == [re |-> re, im |-> im]

\* column j of the 2N x 2N identity
IdentityColumn(N, j) == [i \in 1 .. 2 * N |-> IF i = j THEN Cx(1, 0) ELSE Cx(0, 0)]

\* column j of a matrix whose columns pair a unit vector in the first half
\* with lower times the same unit vector in the second half
PairedColumn(N, j, lower) ==
    LET r == ((j - 1) % N) + 1
    IN  [i \in 1 .. 2 * N |->
            IF i = r THEN Cx(1, 0)
            ELSE IF i = N + r THEN (IF j <= N THEN lower ELSE Cx(-lower.re, -lower.im))
            ELSE Cx(0, 0)]

EigenVectors(N, kind) ==
    [j \in 1 .. 2 * N |->
        IF kind = "identity" THEN IdentityColumn(N, j)
        ELSE IF kind = "real" THEN PairedColumn(N, j, Cx(1, 0))
        ELSE PairedColumn(N, j, Cx(0, 1))]

EigenValues(N, order) ==
    [j \in 1 .. 2 * N |->
        IF order = "zero" THEN 0
        ELSE IF order = "ascending" THEN j
        ELSE 2 * N + 1 - j]

\* the solvers of the family
Solvers == [order : {"ascending", "descending"}, kind : {"identity", "real", "complex"}]

\* what linalg.eig(R, D) returns for the kernels Kx, Ky of N samples
LinalgEig(Kx, Ky, N) ==
    IF Kx.zero /\ Ky.zero
    THEN [betas |-> EigenValues(N, "zero"), alphas |-> EigenVectors(N, "identity")]
    ELSE [betas |-> EigenValues(N, solver.order),
          alphas |-> EigenVectors(N, solver.kind)]

\* np.argsort(betas): the 1-based positions of betas in ascending order, equal
\* values in their order of appearance
ArgSort(betas) ==
    LET Rank(i) == Cardinality({j \in 1 .. Len(betas) :
                                   \/ betas[j] < betas[i]
                                   \/ (betas[j] = betas[i] /\ j < i)})
    IN  [p \in 1 .. Len(betas) |-> CHOOSE i \in 1 .. Len(betas) : Rank(i) = p - 1]

\* s[::-1]
Reversed(s) == [p \in 1 .. Len(s) |-> s[Len(s) + 1 - p]]

(***************************************************************************)
(* Lines 248-254.  A stored weight vector is num / sqrt(sq): the real      *)
(* parts of the entries of a half eigenvector, divided by the norm of the  *)
(* complex half.  sq = 0 is the division 0/0 of every entry: NaN.          *)
(***************************************************************************)
\* alphas[:N, j] for half = 1 and alphas[N:, j] for half = 2
HalfColumn(column, N, half) == [i \in 1 .. N |-> column[(half - 1) * N + i]]

RECURSIVE SumSquares(_)
SumSquares(s) == IF s = <<>> THEN 0 ELSE Head(s) * Head(s) + SumSquares(Tail(s))

\* np.linalg.norm(w, axis=0) squared, for a complex column w
SquaredNorm(w) ==
    SumSquares([i \in 1 .. Len(w) |-> w[i].re])
        + SumSquares([i \in 1 .. Len(w) |-> w[i].im])

\* w /= np.linalg.norm(w, axis=0), then np.real
NormalizedReal(w) ==
    [num |-> [i \in 1 .. Len(w) |-> w[i].re], sq |-> SquaredNorm(w)]

\* the weight matrix of a view: one stored vector per selected eigenvector
WeightMatrix(alphas, ind, N, half) ==
    [c \in 1 .. Len(ind) |-> NormalizedReal(HalfColumn(alphas[ind[c]], N, half))]

\* lines 227-239: R and D are bound only inside the two nested ifs
ProblemAssembled(c) == c.decomp = "full" /\ c.method = "kettenring-like"

\* the inputs a KCCA instance is called with: views of the two largest
\* sample counts
KCCAViews == {v \in CanonViews : Len(v) >= MaxSamples - 1}

KCCAViewLists ==
    {p \in KCCAViews \X KCCAViews : Len(p[1]) = Len(p[2])}
        \cup MalformedLists(KCCAViews)

\* line 245: the number of indices argsort(betas)[::-1][:n_components] keeps
\* of the 2N eigenvalues
TopCount(n_components, N) == IF n_components < 2 * N THEN n_components ELSE 2 * N

\* lines 302-310: the shape of np.transpose(np.asarray(comp)) for a list comp
\* of cols vectors of length n; an empty list gives an empty 1-d array
ComponentShape(n, cols) == IF cols = 0 THEN <<0>> ELSE <<n, cols>>

\* fit(Xs).  solved tells whether linalg.eig returned or failed to converge.
KCCAFit(views, solved) ==
    /\ engine = "kcca"
    /\ kc.made
    /\ IF ~CheckXs(views)
       THEN /\ result' = Raised("kcca_fit", "ValidationError", FALSE)
            /\ UNCHANGED <<train, weights_, fit_ok, fit_cur>>
       ELSE \E X \in {CenterNorm(AsArray(views[1]))} :
            \E Y \in {CenterNorm(AsArray(views[2]))} :
            LET c == kc.cfg
                N == Len(X)
                Kx == MakeKernel(X, X, c.ktype, c.constant, c.degree, c.sigma)
                Ky == MakeKernel(Y, Y, c.ktype, c.constant, c.degree, c.sigma)
                Fails(kind) ==
                    /\ result' = Raised("kcca_fit", kind, TRUE)
                    /\ fit_cur' = FALSE
                    /\ UNCHANGED <<weights_, fit_ok>>
            IN  /\ train' = [def |-> TRUE, X |-> X, Y |-> Y]
                /\ IF c.decomp = "full" /\ ~PowerDefined(c.ktype, c.degree)
                   THEN Fails("TypeError")
                   ELSE IF ~ProblemAssembled(c)
                   THEN Fails("UnboundLocalError")
                   ELSE IF ~(Kx.finite /\ Ky.finite)
                   THEN Fails("ValueError")
                   ELSE IF ~solved
                   THEN Fails("LinAlgError")
                   ELSE \E eig \in {LinalgEig(Kx, Ky, N)} :
                        \E ind \in {SubSeq(Reversed(ArgSort(eig.betas)), 1,
                                            TopCount(c.n_components.v, N))} :
                            /\ weights_' =
                                   [def |-> TRUE, X |-> X, Y |-> Y,
                                    cols |-> Len(ind),
                                    w |-> <<WeightMatrix(eig.alphas, ind, N, 1),
                                            WeightMatrix(eig.alphas, ind, N, 2)>>]
                            /\ result' = Returned("kcca_fit", TRUE)
                            /\ fit_ok' = TRUE
                            /\ fit_cur' = TRUE
    /\ UNCHANGED <<engine, solver, gp, km, centroids, pc, caller, Xs, patience, indices,
                   partitions, new_partitions, objective, iter_stall, iter_num,
                   view, lastFit, kc, components_>>

\* lines 305-310: the list of Kx_transform @ weight[:, i], one per column
Projections(K, weight) == [i \in 1 .. Len(weight) |-> [K |-> K, w |-> weight[i]]]

\* transform(Xs)
KCCATransform(views) ==
    /\ engine = "kcca"
    /\ kc.made
    /\ IF ~weights_.def
       THEN /\ result' = Raised("transform", "NameError", WellFormed(views))
            /\ UNCHANGED components_
       ELSE IF ~CheckXs(views)
       THEN /\ result' = Raised("transform", "ValidationError", FALSE)
            /\ UNCHANGED components_
       ELSE LET c == kc.cfg
                Kx_transform ==
                    MakeKernel(CenterNorm(AsArray(views[1])), CenterNorm(train.X),
                               c.ktype, c.constant, c.degree, c.sigma)
                Ky_transform ==
                    MakeKernel(CenterNorm(AsArray(views[2])), CenterNorm(train.Y),
                               c.ktype, c.constant, c.degree, c.sigma)
                shape == ComponentShape(Len(views[1]), Len(weights_.w[1]))
            IN  /\ components_' =
                       [def |-> TRUE, shape |-> shape,
                        comp |-> <<Projections(Kx_transform, weights_.w[1]),
                                   Projections(Ky_transform, weights_.w[2])>>]
                /\ result' = Outcome("transform", "ok", <<>>, shape[1], TRUE)
    /\ UNCHANGED <<engine, solver, gp, kmvars, kc, train, weights_>>

(***************************************************************************)
(* GroupPCA (mvlearn/decomposition/grouppca.py).  A matrix is not held by  *)
(* its entries but as a term that tells how it was computed: a view of the *)
(* input data, the columns of several matrices side by side, or the scores *)
(* of a matrix in a fitted PCA.  Every term carries its shape.             *)
(***************************************************************************)
\* a view of the input: the data named id, with rows samples and cols features
DataView(id, rows, cols) ==
    [t |-> "data", id |-> id, rows |-> rows, cols |-> cols, parts |-> <<>>,
     model |-> <<>>, whitened |-> FALSE]

\* np.hstack(ms) for matrices of equal row count
HStack(ms) ==
    [t |-> "hstack", id |-> "", rows |-> ms[1].rows,
     cols |-> SumInts([i \in 1 .. Len(ms) |-> ms[i].cols]), parts |-> ms,
     model |-> <<>>, whitened |-> FALSE]

\* what PCA(d, whiten=w).fit(M) learns: components_, mean_ and
\* explained_variance_ of M, d components
PCAModel(M, d, w) == [on |-> M, d |-> d, whiten |-> w]

\* the projection of M on the components of a fitted PCA, divided by the
\* square roots of the explained variances when whitened
Scores(model, M, whitened) ==
    [t |-> "scores", id |-> "", rows |-> M.rows, cols |-> model.d, parts |-> <<M>>,
     model |-> <<model>>, whitened |-> whitened]

\* PCA(d).fit_transform(M) raises ValueError unless 0 <= d <= min(M.shape)
PCAFits(M, d) == d >= 0 /\ d <= M.rows /\ d <= M.cols

\* pca.fit_transform(M) of PCA(d, whiten=w): the scores of M in the PCA
\* fitted on M
PCAFitTransform(M, d, w) == Scores(PCAModel(M, d, w), M, w)

\* n_individual_components: None, 'auto', an int or a list of ints
IndNone == [t |-> "none", v |-> 0, l |-> <<>>]

IndAuto == [t |-> "auto", v |-> 0, l |-> <<>>]

IndInt(v) == [t |-> "int", v |-> v, l |-> <<>>]

IndList(l) == [t |-> "list", v |-> 0, l |-> l]

RECURSIVE MinOf(_)
MinOf(s) ==
    IF Len(s) = 1 THEN s[1]
    ELSE LET m == MinOf(Tail(s)) IN IF s[1] < m THEN s[1] ELSE m

\* lines 180-183
ResolveComponents(n_components, n_features) ==
    IF n_components.none THEN MinOf(n_features) ELSE n_components.n

\* lines 184-192 with 'auto' resolved to n_components_ alone
ResolveIndividualNoMin(cfg, n_features, n_components_) ==
    LET first == IF cfg.n_individual_components = IndAuto
                 THEN IndInt(n_components_)
                 ELSE cfg.n_individual_components
    IN  IF first = IndNone /\ cfg.prewhiten THEN IndList(n_features) ELSE first

\* lines 184-192
ResolveIndividual(cfg, n_features, n_components_) ==
    LET first == IF cfg.n_individual_components = IndAuto
                 THEN IndInt(IF n_components_ < MinOf(n_features)
                             THEN n_components_ ELSE MinOf(n_features))
                 ELSE cfg.n_individual_components
    IN  IF first = IndNone /\ cfg.prewhiten THEN IndList(n_features) ELSE first

\* GroupPCA(n_components, n_individual_components, prewhiten=, whiten=):
\* __init__ stores its parameters and checks nothing.  touched: some
\* attribute with a trailing underscore exists.  individual: the fitted
\* individual PCAs (individual_components_, individual_mean_, ...).  pca:
\* the fitted PCA of the stacked views (components_, mean_, ...).  History:
\* fit_in, cur and ft_out are the input of the last call of fit_transform,
\* whether it returned and what it returned; t_in and t_out are the input
\* and the value of the last call of transform since.
GroupPCAInit(n_components, n_individual_components, prewhiten, whiten) ==
    [cfg |-> [n_components |-> n_components,
              n_individual_components |-> n_individual_components,
              prewhiten |-> prewhiten, whiten |-> whiten],
     touched |-> FALSE,
     n_features_ |-> <<>>,
     n_components_ |-> 0,
     n_individual_components_ |-> IndNone,
     individual_projection_ |-> FALSE,
     individual |-> <<>>,
     pca |-> <<>>,
     fit_in |-> <<>>,
     cur |-> FALSE,
     ft_out |-> <<>>,
     t_in |-> <<>>,
     t_out |-> <<>>]

\* check_Xs(Xs, copy=self.copy): at least one view, all of one sample count
CheckXsViews(data) ==
    /\ Len(data) >= 1
    /\ \A i \in 1 .. Len(data) : data[i].rows = data[1].rows

\* lines 204-222: the loop over the views, from view i on, with the fitted
\* PCAs and the reduced views gathered so far.  A PCA that cannot be fitted
\* ends the loop with what was appended before it.
RECURSIVE IndividualLoop(_, _, _, _, _, _)
IndividualLoop(data, ind, w, i, fitted, reduced) ==
    IF i > Len(data) THEN [kind |-> "ok", fitted |-> fitted, reduced |-> reduced]
    ELSE IF ind.t = "list" /\ i > Len(ind.l)
    THEN [kind |-> "IndexError", fitted |-> fitted, reduced |-> reduced]
    ELSE LET dimension == IF ind.t = "int" THEN ind.v ELSE ind.l[i]
         IN  IF ~PCAFits(data[i], dimension)
             THEN [kind |-> "ValueError", fitted |-> fitted, reduced |-> reduced]
             ELSE IndividualLoop(data, ind, w, i + 1,
                                 Append(fitted, PCAModel(data[i], dimension, w)),
                                 Append(reduced, PCAFitTransform(data[i], dimension, w)))

\* fit_transform(Xs), lines 174-230, called as op (fit calls it and returns
\* self)
FitTransformBody(data, op) ==
    IF ~CheckXsViews(data)
    THEN /\ result' = Raised(op, "ValueError", FALSE)
         /\ gp' = [gp EXCEPT !.fit_in = data, !.cur = FALSE, !.ft_out = <<>>,
                             !.t_in = <<>>, !.t_out = <<>>]
    ELSE \E n_features \in {[i \in 1 .. Len(data) |-> data[i].cols]} :
         \E n_components_ \in {ResolveComponents(gp.cfg.n_components, n_features)} :
         \E ind \in {ResolveIndividual(gp.cfg, n_features, n_components_)} :
         \E loop \in {IF ind = IndNone
                       THEN [kind |-> "ok", fitted |-> gp.individual, reduced |-> data]
                       ELSE IndividualLoop(data, ind, gp.cfg.prewhiten, 1, <<>>, <<>>)} :
         LET resolved == [gp EXCEPT !.touched = TRUE,
                                    !.n_features_ = n_features,
                                    !.n_components_ = n_components_,
                                    !.n_individual_components_ = ind,
                                    !.individual_projection_ = (ind # IndNone),
                                    !.individual = loop.fitted,
                                    !.fit_in = data,
                                    !.cur = FALSE,
                                    !.ft_out = <<>>,
                                    !.t_in = <<>>,
                                    !.t_out = <<>>]
             X_stack == HStack(loop.reduced)
         IN  IF loop.kind # "ok"
             THEN /\ result' = Raised(op, loop.kind, TRUE)
                  /\ gp' = resolved
             ELSE IF ~PCAFits(X_stack, n_components_)
             THEN /\ result' = Raised(op, "ValueError", TRUE)
                  /\ gp' = resolved
             ELSE LET output == PCAFitTransform(X_stack, n_components_, gp.cfg.whiten)
                  IN  /\ result' = Outcome(op, "ok", <<>>, output.rows, TRUE)
                      /\ gp' = [resolved EXCEPT
                                    !.pca = <<PCAModel(X_stack, n_components_,
                                                       gp.cfg.whiten)>>,
                                    !.cur = TRUE,
                                    !.ft_out = <<output>>]

GroupPCAFitTransform(data) ==
    /\ engine = "grouppca"
    /\ FitTransformBody(data, "gp_fit_transform")
    /\ UNCHANGED <<engine, solver, kmvars, kcvars>>

\* fit(Xs), lines 248-249
GroupPCAFit(data) ==
    /\ engine = "grouppca"
    /\ FitTransformBody(data, "gp_fit")
    /\ UNCHANGED <<engine, solver, kmvars, kcvars>>

\* X - mean for X with c columns and a mean of p entries broadcasts when
\* c = p or one of them is 1, and np.dot with components_.T needs p columns
Projectable(c, p) == c = p \/ c = 1

\* X_transformed /= np.sqrt(explained_variance_) left out
ManualWhitenSkipped(model, M, flag) == Scores(model, M, FALSE)

\* lines 282-285 and 287-290: np.dot(X - mean, components_.T), divided by
\* np.sqrt(explained_variance_) under the flag
ManualWhiten(model, M, flag) == Scores(model, M, flag)

\* lines 273-286: zip stops at the shorter of Xs and the fitted lists; the
\* views beyond it stay as they are
RECURSIVE ProjectViews(_, _, _, _)
ProjectViews(data, fitted, w, i) ==
    IF i > Len(data) THEN [kind |-> "ok", views |-> <<>>]
    ELSE LET rest == ProjectViews(data, fitted, w, i + 1)
         IN  IF i > Len(fitted)
             THEN [rest EXCEPT !.views = <<data[i]>> \o rest.views]
             ELSE IF ~Projectable(data[i].cols, fitted[i].on.cols)
             THEN [kind |-> "ValueError", views |-> <<>>]
             ELSE IF rest.kind # "ok" THEN rest
             ELSE [rest EXCEPT !.views =
                       <<ManualWhiten(fitted[i], data[i], w)>> \o rest.views]

\* transform(Xs), lines 270-291
GroupPCATransform(data) ==
    /\ engine = "grouppca"
    /\ LET Ends(kind) ==
               /\ result' = Raised("gp_transform", kind, CheckXsViews(data))
               /\ gp' = [gp EXCEPT !.t_in = data, !.t_out = <<>>]
       IN  IF ~gp.touched THEN Ends("NotFittedError")
           ELSE IF ~CheckXsViews(data) THEN Ends("ValueError")
           ELSE \E proj \in {IF gp.individual_projection_
                              THEN ProjectViews(data, gp.individual, gp.cfg.prewhiten, 1)
                              ELSE [kind |-> "ok", views |-> data]} :
                IF proj.kind # "ok" THEN Ends(proj.kind)
                ELSE IF gp.pca = <<>> THEN Ends("AttributeError")
                ELSE IF ~Projectable(HStack(proj.views).cols, gp.pca[1].on.cols)
                THEN Ends("ValueError")
                ELSE LET X_transformed == ManualWhiten(gp.pca[1], HStack(proj.views),
                                                       gp.cfg.whiten)
                     IN  /\ result' = Outcome("gp_transform", "ok", <<>>,
                                              X_transformed.rows, TRUE)
                         /\ gp' = [gp EXCEPT !.t_in = data,
                                             !.t_out = <<X_transformed>>]
    /\ UNCHANGED <<engine, solver, kmvars, kcvars>>

(***************************************************************************)
(* The specification                                                       *)
(***************************************************************************)
\* the numbers of clusters an instance is constructed with
KArgs == {1, 2}

\* random_state: the default None, and a seed
RandomStateArgs == {NoInt, IntArg(42)}

MaxIterArgs == {NoInt} \cup {IntArg(n) : n \in 0 .. MaxMaxIter}

\* the parameters a GroupPCA instance is constructed with
GroupPCAComponentArgs == {NoInt} \cup {IntArg(n) : n \in 1 .. 4}

GroupPCAIndividualArgs ==
    {IndNone, IndAuto, IndInt(1), IndInt(2), IndList(<<1, 2>>), IndList(<<2, 1, 1>>)}

GroupPCAInstances ==
    {GroupPCAInit(nc, ni, pw, w) :
        nc \in GroupPCAComponentArgs, ni \in GroupPCAIndividualArgs,
        pw \in BOOLEAN, w \in BOOLEAN}

\* the data named id with rows samples and the feature counts of layout
DataViews(id, rows, layout) ==
    [i \in 1 .. Len(layout) |-> DataView(id, rows, layout[i])]

\* the inputs of a GroupPCA instance: two or three views of 2 or 6 samples,
\* a second data set of the shape of the first, and views of unequal
\* sample counts
GroupPCAData ==
    {DataViews("A", rows, layout) :
        rows \in {2, 6}, layout \in {<<2, 2>>, <<2, 1, 2>>}}
        \cup {DataViews("B", 6, <<2, 2>>)}
        \cup {<<DataView("A", 6, 2), DataView("A", 2, 2)>>}

\* a solver of the family: eigenvalues in descending order, real eigenvectors
RealSolver == [order |-> "descending", kind |-> "real"]

\* the state after construction, for an instance of one of the engines,
\* random_state among seeds and the solver among solvers
InitWith(engines, seeds, solvers) ==
    /\ engine \in engines
    /\ solver \in IF engine = "kcca" THEN solvers ELSE {RealSolver}
    /\ gp \in IF engine = "grouppca" THEN GroupPCAInstances
               ELSE {GroupPCAInit(NoInt, IndAuto, FALSE, FALSE)}
    /\ IF engine = "kmeans"
       THEN km \in {KMeansInit(k, rs, mi) :
                        k \in KArgs, rs \in seeds, mi \in MaxIterArgs}
       ELSE km = KMeansInit(1, NoInt, NoInt)
    /\ centroids = UnsetCentroids
    /\ pc = "idle"
    /\ caller = NoCaller
    /\ Xs = <<>>
    /\ patience = 0
    /\ indices = <<>>
    /\ partitions = <<None, None>>
    /\ new_partitions = None
    /\ objective = <<Inf, Inf>>
    /\ iter_stall = 0
    /\ iter_num = 0
    /\ view = 0
    /\ result = NoCall
    /\ lastFit = NoFit
    /\ fit_ok = FALSE
    /\ fit_cur = FALSE
    /\ kc = NotConstructed
    /\ train = NoTrain
    /\ weights_ = NoWeights
    /\ components_ = NoComponents

\* random_state is left at its default: no method reads self._random_state
Init == InitWith({"kmeans", "kcca"}, {NoInt}, {RealSolver})

Next ==
    \/ \E views \in ViewLists, p \in 1 .. MaxPatience : KMeansFit(views, p)
    \/ KMeansFitIter
    \/ KMeansFitReturn(FALSE)
    \/ \E views \in ViewLists : KMeansPredict(views)
    \/ \E views \in ViewLists, p \in 1 .. MaxPatience : KMeansFitPredict(views, p)
    \/ \E c \in Configs : KCCAInit(c)
    \/ \E views \in KCCAViewLists, solved \in BOOLEAN : KCCAFit(views, solved)
    \/ \E views \in KCCAViewLists : KCCATransform(views)

Spec == Init /\ [][Next]_vars

(***************************************************************************)
(* The specification with the history of returned fits recorded            *)
(***************************************************************************)
NextRefit ==
    \/ \E views \in ViewLists, p \in 1 .. MaxPatience : KMeansFit(views, p)
    \/ KMeansFitIter
    \/ KMeansFitReturn(TRUE)

InitRefit == InitWith({"kmeans"}, RandomStateArgs, {RealSolver})

SpecRefit == InitRefit /\ [][NextRefit]_vars

(***************************************************************************)
(* The specification of a KMeans instance                                  *)
(***************************************************************************)
NextKMeans ==
    \/ \E views \in ViewLists, p \in 1 .. MaxPatience : KMeansFit(views, p)
    \/ KMeansFitIter
    \/ KMeansFitReturn(FALSE)
    \/ \E views \in ViewLists : KMeansPredict(views)
    \/ \E views \in ViewLists, p \in 1 .. MaxPatience : KMeansFitPredict(views, p)

InitKMeans == InitWith({"kmeans"}, {NoInt}, {RealSolver})

SpecKMeans == InitKMeans /\ [][NextKMeans]_vars

(***************************************************************************)
(* The specification of a GroupPCA instance                                *)
(***************************************************************************)
NextGroupPCA ==
    \/ \E data \in GroupPCAData : GroupPCAFit(data)
    \/ \E data \in GroupPCAData : GroupPCAFitTransform(data)
    \/ \E data \in GroupPCAData : GroupPCATransform(data)

InitGroupPCA == InitWith({"grouppca"}, {NoInt}, {RealSolver})

SpecGroupPCA == InitGroupPCA /\ [][NextGroupPCA]_vars

(***************************************************************************)
(* The specification of a KCCA instance, for every solver of the family.   *)
(* The configurations differ in the number of components, the kernel and   *)
(* whether fit can assemble its problem.                                   *)
(***************************************************************************)
KCCAConfigs ==
    {[DefaultConfig EXCEPT !.n_components = PyInt(n), !.ktype = kt, !.decomp = dc] :
        n \in {0, 1, 2, 5}, kt \in {"linear", "poly", "gaussian"},
        dc \in DecompArgs}

NextKCCA ==
    \/ \E c \in KCCAConfigs : KCCAInit(c)
    \/ \E views \in KCCAViewLists, solved \in BOOLEAN : KCCAFit(views, solved)
    \/ \E views \in KCCAViewLists : KCCATransform(views)

InitKCCA == InitWith({"kcca"}, {NoInt}, Solvers)

SpecKCCA == InitKCCA /\ [][NextKCCA]_vars

(***************************************************************************)
(* Claims                                                                  *)
(***************************************************************************)
\* the error each engine would raise for "model not trained": KCCA raises
\* NameError("kCCA has not been trained."); KMeans defines none
NotTrainedKind == "NameError"

\* C1: predict (KMeans) or transform (KCCA) on an instance on which no fit
\* has succeeded raises the not-trained error, whatever the input: it never
\* returns and never fails with another kind of error.
C1_NotTrainedGuard ==
    (result.op \in {"predict", "transform"} /\ ~fit_ok)
        => result.kind = NotTrainedKind

\* C2: the loop of fit stops.  While fit runs the stall counter never exceeds
\* patience, the iteration count never exceeds a configured max_iter, and
\* with or without max_iter the iteration count never exceeds patience + 1;
\* every iteration adds one to the count, so the loop cannot go on for ever.
C2_FitTerminates ==
    pc = "fit" =>
        /\ iter_stall <= patience
        /\ (~km.max_iter.inf => iter_num <= km.max_iter.n)
        /\ iter_num <= patience + 1
        /\ (~LoopCondition =>
               \/ iter_stall = patience
               \/ (~km.max_iter.inf /\ iter_num = km.max_iter.n))

\* C2, witness: an unbounded fit whose loop was stopped by the stall counter
C2_Witness ==
    /\ pc = "fit"
    /\ km.max_iter.inf
    /\ iter_stall = patience
    /\ iter_num = patience + 1

Seeded == ~km.random_state.none

\* C3: with an explicit random seed, a fit on the views and with the
\* patience of the fit that returned before it draws the same initial
\* indices and returns with the same centroids and the same partitions.
C3_SeededFitRepeats ==
    [][(/\ Seeded
        /\ lastFit.done
        /\ lastFit'.done
        /\ pc = "fit"
        /\ pc' = "idle"
        /\ result'.kind = "ok"
        /\ lastFit'.Xs = lastFit.Xs
        /\ lastFit'.patience = lastFit.patience)
            => (/\ lastFit'.indices = lastFit.indices
                /\ lastFit'.centroids = lastFit.centroids
                /\ lastFit'.partitions = lastFit.partitions)]_vars

\* C4: the patience given to fit_predict is the patience of the loop of the
\* fit that fit_predict runs.
C4_FitPredictPatience ==
    (pc = "fit" /\ caller.op = "fit_predict") => patience = caller.patience

\* the error of the input validation and the error of the constructor
ValidationKind == "ValidationError"

ConfigurationKind == "ValueError"

\* a step that starts or finishes a call whose views are malformed; predict
\* and transform count on an instance that has been fitted
MalformedCall ==
    /\ result' # result
    /\ ~result'.wf
    /\ result'.op \in {"running", "fit", "fit_predict", "predict",
                       "kcca_fit", "transform"}
    /\ (result'.op \in {"predict", "transform"} => fit_ok)

\* C5: a fit, predict or transform call given malformed views (not exactly
\* two views, or unequal sample counts) raises the validation error before
\* it computes or stores anything: the fitted state stays as it was.
C5_ValidationFirst ==
    [][MalformedCall =>
         (/\ result'.kind = ValidationKind
          /\ centroids' = centroids
          /\ train' = train
          /\ weights_' = weights_)]_vars

\* C6: the KCCA constructor raises the configuration error exactly when a
\* parameter is invalid, and constructs the instance for every valid
\* configuration.
C6_ConfigValidated ==
    result.op = "KCCA" =>
        IF result.wf THEN result.kind = "ok" ELSE result.kind = ConfigurationKind

\* C7: no KCCA instance whose decomposition is not 'full' or whose method is
\* not 'kettenring-like' is constructed and then reaches fit.
C7_DecompEager ==
    (kc.made /\ result.op = "kcca_fit") =>
        (kc.cfg.decomp = "full" /\ kc.cfg.method = "kettenring-like")

\* C8: on a fitted KMeans model predict returns, for every well-formed input,
\* one label per input sample, and every label lies in [0, k).
C8_LabelsValid ==
    /\ (result.op \in {"predict", "fit_predict"} /\ fit_cur /\ result.wf)
           => result.kind = "ok"
    /\ (result.op \in {"predict", "fit_predict"} /\ result.kind = "ok")
           => /\ Len(result.labels) = result.n
              /\ result.n >= 1
              /\ \A i \in 1 .. Len(result.labels) :
                     result.labels[i] \in 0 .. (km.k - 1)

\* C8, witness: predict returned labels for two samples and two clusters, of
\* which the second view's fitted centroids are all NaN (so that a consensus
\* cluster is empty)
C8_Witness ==
    /\ result.op = "predict"
    /\ result.kind = "ok"
    /\ km.k = 2
    /\ result.n = 2
    /\ \A r \in 1 .. Len(centroids.c[2].rows) : IsNaN(centroids.c[2].rows[r])

\* a step that runs one iteration of the loop of fit
IterationStep == pc = "fit" /\ pc' = "fit" /\ iter_num' = iter_num + 1

\* C9: in an iteration of fit the best objective of a view is overwritten
\* only by a strictly lower value, and it is overwritten in exactly the
\* iterations that reset the stall counter to zero.
C9_ObjectiveNeverIncreases ==
    [][IterationStep =>
         (/\ \A v \in 1 .. 2 :
                 objective'[v] # objective[v] => Less(objective'[v], objective[v])
          /\ (iter_stall' = 0) <=> (objective' # objective)
          /\ (iter_stall' # 0) => (iter_stall' = iter_stall + 1))]_vars

\* C9, witness: a running fit that has overwritten the best objective of the
\* first view at least once and has since gone through stalled iterations
C9_Witness ==
    /\ pc = "fit"
    /\ objective[1].k = "num"
    /\ iter_stall = 2
    /\ iter_num = 3

\* a step that is a call of predict, alone or as the second half of
\* fit_predict, on a KMeans instance
PredictStep == result' # result /\ result'.op \in {"predict", "fit_predict"}

\* a step that is a call of transform on a KCCA instance
TransformStep == result' # result /\ result'.op = "transform"

\* C10: predict leaves both centroid sets as they are, and transform leaves
\* the canonical weights and the stored training views as they are.
C10_FittedStateReadOnly ==
    [][/\ PredictStep => centroids' = centroids
       /\ TransformStep => (weights_' = weights_ /\ train' = train)]_vars

\* C10, witness: predict has returned labels on a fitted instance
C10_Witness ==
    /\ result.op = "predict"
    /\ result.kind = "ok"
    /\ fit_cur
    /\ centroids.set

\* the squared L2 norm of a stored weight vector num / sqrt(sq)
StoredNormSquared(col) ==
    IF col.sq = 0 THEN NaN ELSE Num(SumSquares(col.num), col.sq)

\* C11: after a fit that returned, every column of both stored weight
\* matrices has L2 norm 1.
C11_UnitNormWeights ==
    weights_.def =>
        \A half \in 1 .. 2 : \A j \in 1 .. Len(weights_.w[half]) :
            StoredNormSquared(weights_.w[half][j]) = Num(1, 1)

\* what transform is to return for one view: the kernel between the centred
\* input and the stored training view, times each stored weight vector
ExpectedProjection(input, stored, weight) ==
    Projections(MakeKernel(CenterNorm(AsArray(input)), stored, kc.cfg.ktype,
                           kc.cfg.constant, kc.cfg.degree, kc.cfg.sigma),
                weight)

\* C12: a transform that returns on an instance with a valid configuration
\* yields two matrices of shape (samples of the input, n_components), each
\* the kernel between the centred input view and the stored training view
\* times the stored weights of that view.
C12_TransformProjects ==
    [][\A views \in KCCAViewLists :
          (KCCATransform(views) /\ result'.kind = "ok" /\ ValidConfig(kc.cfg)) =>
              /\ components_'.shape = <<Len(views[1]), kc.cfg.n_components.v>>
              /\ Len(components_'.comp) = 2
              /\ components_'.comp[1]
                     = ExpectedProjection(views[1], train.X, weights_.w[1])
              /\ components_'.comp[2]
                     = ExpectedProjection(views[2], train.Y, weights_.w[2])]_vars

\* C15: after an iteration the partition the loop holds for the updated
\* view is the nearest-centroid assignment under the centroids just
\* computed, so that the next M-step reads it.
C15_EStepStoresPartition ==
    (pc = "fit" /\ iter_num >= 1) =>
        /\ partitions[view + 1].def
        /\ partitions[view + 1] = new_partitions
        /\ partitions[view + 1].rows
               = EStep(Xs[view + 1], centroids.c[view + 1].rows, km.k)

\* C16 as stated: the iterations update the views 1, 0, 1, 0, ...: the
\* first iteration updates view 1.
C16_AlternateFromViewOne ==
    [][IterationStep => view' = ViewOfFromOne(iter_num')]_vars

\* C16, amended: every iteration replaces the centroids of exactly one view,
\* and the views alternate 0, 1, 0, 1, ...: the first iteration updates
\* view 0 and no view is updated in two consecutive iterations.
C16_AlternateFromViewZero ==
    [][IterationStep =>
          /\ view' \in {0, 1}
          /\ (iter_num = 0 => view' = 0)
          /\ (iter_num >= 1 => view' # view)
          /\ centroids'.c[view' + 1].def
          /\ centroids'.c[2 - view'] = centroids.c[2 - view']]_vars

\* C16, witness: a running fit after its second iteration, which updated
\* view 1 after the first had updated view 0
C16_Witness ==
    /\ pc = "fit"
    /\ iter_num = 2
    /\ view = 1
    /\ centroids.c[1].def
    /\ centroids.c[2].def

\* the rows of X at the positions of the set S, summed
RECURSIVE SumAt(_, _)
SumAt(X, S) ==
    IF S = {} THEN 0
    ELSE LET i == CHOOSE j \in S : TRUE IN X[i] + SumAt(X, S \ {i})

\* the mean of the rows of X at the positions of S: NaN for no position
MeanAt(X, S) == IF S = {} THEN NaN ELSE Num(SumAt(X, S), Cardinality(S))

\* the samples a partition of the loop assigns to cluster cl: none when the
\* partition is None
AssignedTo(part, cl) ==
    IF part.def THEN {i \in 1 .. Len(part.rows) : part.rows[i] = cl} ELSE {}

C18_ObjectiveOfNewPartition ==
    [][IterationStep =>
          LET o_funct == ObjectiveFunction(Xs[view' + 1], new_partitions',
                                           centroids'.c[view' + 1].rows, km.k)
          IN  IF Less(o_funct, objective[view' + 1])
              THEN /\ objective' = [objective EXCEPT ![view' + 1] = o_funct]
                   /\ iter_stall' = 0
              ELSE /\ objective' = objective
                   /\ iter_stall' = iter_stall + 1]_vars

\* C19: before the first iteration the k sampled indices are pairwise
\* distinct rows of view 2, the centroids of view 2 are those rows, its
\* partition is their nearest-centroid assignment, and view 1 has neither
\* centroids nor a partition.
C19_InitDistinctRows ==
    (pc = "fit" /\ iter_num = 0) =>
        /\ Len(indices) = km.k
        /\ \A a, b \in 1 .. Len(indices) : a # b => indices[a] # indices[b]
        /\ \A c \in 1 .. Len(indices) :
               /\ indices[c] \in 0 .. (Len(Xs[2]) - 1)
               /\ centroids.c[2].rows[c] = Num(Xs[2][indices[c] + 1], 1)
        /\ partitions[2] = Some(EStep(Xs[2], centroids.c[2].rows, km.k))
        /\ ~centroids.c[1].def
        /\ ~partitions[1].def

\* the distance of row i of X to the mean of the rows of X at the positions S
DistToMeanAt(X, i, S) == RowDist(X[i], MeanAt(X, S))

\* C20: the labels predict returns are those of the joint assignment: each
\* view is partitioned by its own fitted centroids, the consensus centroid
\* of cluster c in a view is the mean of the samples both partitions assign
\* to c, and the label of a sample is the first cluster of least sum of the
\* two distances to its consensus centroids, where np.argmin takes a sum
\* that is not a number (a cluster without a common sample) for the least.
C20_PredictJointNearest ==
    [][(result'.op = "predict" /\ result'.kind = "ok") =>
          \A views \in ViewLists :
              KMeansPredict(views) =>
              LET n == Len(views[1])
                  p1 == Some(EStep(views[1], centroids.c[1].rows, km.k))
                  p2 == Some(EStep(views[2], centroids.c[2].rows, km.k))
                  Both(cl) == AssignedTo(p1, cl) \cap AssignedTo(p2, cl)
                  Total(i, cl) == Add(DistToMeanAt(views[1], i, Both(cl)),
                                      DistToMeanAt(views[2], i, Both(cl)))
              IN  /\ Len(result'.labels) = n
                  /\ \A i \in 1 .. n :
                         LET lab == result'.labels[i]
                             undefined == {cl \in 0 .. (km.k - 1) :
                                              IsNaN(Total(i, cl))}
                         IN  /\ lab \in 0 .. (km.k - 1)
                             /\ IF undefined # {}
                                THEN \A cl \in undefined : lab <= cl
                                ELSE /\ \A cl \in 0 .. (km.k - 1) :
                                           ~Less(Total(i, cl), Total(i, lab))
                                     /\ \A cl \in 0 .. (lab - 1) :
                                           Less(Total(i, lab), Total(i, cl))]_vars

\* C20, witness: predict on a fitted instance has returned labels that
\* differ between two samples
C20_Witness ==
    /\ result.op = "predict"
    /\ result.kind = "ok"
    /\ fit_cur
    /\ km.k = 2
    /\ result.n = 2
    /\ result.labels[1] # result.labels[2]

\* the feature counts of the views of a data set
FeatureCounts(data) == [i \in 1 .. Len(data) |-> data[i].cols]

\* the dimension the parameters ask view i to be reduced to, for
\* n_individual_components None (no reduction), an int or a list
AskedDimension(cfg, data, i) ==
    IF cfg.n_individual_components.t = "int" THEN cfg.n_individual_components.v
    ELSE IF cfg.n_individual_components.t = "list"
    THEN cfg.n_individual_components.l[i]
    ELSE data[i].cols

\* the setting of the claim: views of one sample count with at least as many
\* samples as features in total, a given n_components, and
\* n_individual_components None, an int or a list with one entry per view,
\* no entry above the feature count of its view
ComponentsSetting(cfg, data) ==
    /\ CheckXsViews(data)
    /\ data[1].rows >= SumInts(FeatureCounts(data))
    /\ ~cfg.n_components.none
    /\ cfg.n_individual_components.t \in {"none", "int", "list"}
    /\ cfg.n_individual_components.t = "list"
           => Len(cfg.n_individual_components.l) = Len(data)
    /\ \A i \in 1 .. Len(data) :
           AskedDimension(cfg, data, i) \in 1 .. data[i].cols

\* the number of columns of the stacked views after the reduction asked for
StackedColumns(cfg, data) ==
    SumInts([i \in 1 .. Len(data) |-> AskedDimension(cfg, data, i)])

\* fit and transform on one data set give n_components columns and the
\* matrix fit_transform gave, whenever n_components is at most top
FitThenTransformAgree(top(_, _)) ==
    /\ (/\ result.op \in {"gp_fit", "gp_fit_transform"}
        /\ ComponentsSetting(gp.cfg, gp.fit_in)
        /\ gp.cfg.n_components.n \in 1 .. top(gp.cfg, gp.fit_in))
           => /\ result.kind = "ok"
              /\ gp.cur
              /\ gp.ft_out[1].cols = gp.cfg.n_components.n
    /\ (/\ result.op = "gp_transform"
        /\ gp.t_in = gp.fit_in
        /\ ComponentsSetting(gp.cfg, gp.fit_in)
        /\ gp.cfg.n_components.n \in 1 .. top(gp.cfg, gp.fit_in))
           => /\ result.kind = "ok"
              /\ gp.t_out = gp.ft_out
              /\ gp.t_out[1].cols = gp.cfg.n_components.n

\* the total feature count minus one
TotalMinusOne(cfg, data) == SumInts(FeatureCounts(data)) - 1

Smaller(a, b) == IF a < b THEN a ELSE b

\* view i as the last fit_transform that returned stacked it
ReducedView(i) == gp.ft_out[1].parts[1].parts[i]

\* view i was stacked as the scores of the input view in a PCA of d
\* components fitted on it
ReducedTo(i, d) ==
    /\ ReducedView(i).t = "scores"
    /\ ReducedView(i).cols = d
    /\ ReducedView(i).parts = <<gp.fit_in[i]>>
    /\ ReducedView(i).model[1].on = gp.fit_in[i]

\* the resolution of the component counts by the last call of fit_transform
\* on views of one sample count; unreduced tells when n_individual_components
\* None leaves the views as they are
ComponentCountsResolved(unreduced) ==
    (gp.touched /\ CheckXsViews(gp.fit_in)) =>
        LET ni == gp.cfg.n_individual_components
            least == MinOf(FeatureCounts(gp.fit_in))
            views == 1 .. Len(gp.fit_in)
        IN  /\ gp.n_components_ = IF gp.cfg.n_components.none THEN least
                                   ELSE gp.cfg.n_components.n
            /\ ni.t = "auto" =>
                   /\ gp.n_individual_components_
                          = IndInt(Smaller(gp.n_components_, least))
                   /\ gp.cur => \A i \in views :
                                    ReducedTo(i, Smaller(gp.n_components_, least))
            /\ (ni.t = "int" /\ gp.cur) => \A i \in views : ReducedTo(i, ni.v)
            /\ (ni.t = "list" /\ gp.cur) => \A i \in views : ReducedTo(i, ni.l[i])
            /\ (ni.t = "none" /\ gp.cur) =>
                   IF unreduced
                   THEN \A i \in views : ReducedView(i) = gp.fit_in[i]
                   ELSE \A i \in views :
                            /\ ReducedTo(i, gp.fit_in[i].cols)
                            /\ ReducedView(i).whitened

StoredProblem(X, Y) ==
    LET c == kc.cfg
    IN  LinalgEig(MakeKernel(X, X, c.ktype, c.constant, c.degree, c.sigma),
                  MakeKernel(Y, Y, c.ktype, c.constant, c.degree, c.sigma),
                  Len(X))

\* sel names, for each stored column, the eigenpair it was cut from: the
\* pairs are distinct, their eigenvalues descend along the columns, no pair
\* left out has a larger eigenvalue than a pair kept, and column c of view
\* half is the half of eigenvector sel[c], normalised
SelectsTop(sel, eig, w, N) ==
    /\ \A c, d \in DOMAIN sel : c < d =>
           /\ sel[c] # sel[d]
           /\ eig.betas[sel[c]] >= eig.betas[sel[d]]
    /\ \A j \in 1 .. 2 * N :
           (\A c \in DOMAIN sel : sel[c] # j) =>
               \A c \in DOMAIN sel : eig.betas[j] <= eig.betas[sel[c]]
    /\ \A half \in 1 .. 2 : \A c \in DOMAIN sel :
           w[half][c] = NormalizedReal(HalfColumn(eig.alphas[sel[c]], N, half))

\* the stored weights are cut from the eigenpairs of the largest eigenvalues
\* in descending order, each view's matrix with N rows
StoredFromTop ==
    LET N == Len(train'.X)
        w == weights_'.w
        eig == StoredProblem(train'.X, train'.Y)
    IN  /\ Len(w) = 2
        /\ Len(w[1]) = Len(w[2])
        /\ \A half \in 1 .. 2 : \A c \in 1 .. Len(w[half]) :
               Len(w[half][c].num) = N
        /\ \E sel \in [1 .. Len(w[1]) -> 1 .. 2 * N] : SelectsTop(sel, eig, w, N)

\* a step that is a fit of a validly configured KCCA instance that returns
FitReturnStep ==
    /\ result' # result
    /\ result'.op = "kcca_fit"
    /\ result'.kind = "ok"
    /\ ValidConfig(kc.cfg)

\* C21: a fit that returns stores, for each view, a weight matrix of N rows
\* (N the training sample count) and n_components columns, whose columns
\* are the first-N and last-N halves of the eigenvectors of the
\* n_components largest eigenvalues in descending order.
C21_TopEigenvectors ==
    [][FitReturnStep =>
          /\ StoredFromTop
          /\ Len(weights_'.w[1]) = kc.cfg.n_components.v
          /\ Len(weights_'.w[2]) = kc.cfg.n_components.v]_vars

\* C22: the stored training views are the views the stored weights were
\* computed from, in every state, also after a fit that raised.
C22_TrainAndWeightsOfOneFit ==
    weights_.def =>
        /\ train.def
        /\ train.X = weights_.X
        /\ train.Y = weights_.Y

\* C23: whenever the last fit that was started has returned, the centroids
\* of both views are defined and each set has exactly k rows.
C23_CentroidSetsOfK ==
    (engine = "kmeans" /\ pc = "idle" /\ fit_cur) =>
        /\ centroids.set
        /\ \A v \in 1 .. 2 :
               /\ centroids.c[v].def
               /\ Len(centroids.c[v].rows) = km.k

=============================================================================
